---- MODULE Spec2Model ----
(***************************************************************************)
(* Depth-to-geometry reconstruction of Aether-forge: the three geometry    *)
(* generators (createMergedGeometry, createVolumetricGeometry,             *)
(* createMeshFromDataAsync) and the React effects that drive them.         *)
(*                                                                         *)
(* Numbers.  The source computes in IEEE doubles.  Here every quantity the *)
(* generators branch on is an exact rational, kept as numerator and        *)
(* denominator (the typed-array slot of addVertex), or a fixed-point value *)
(* in units of 1/FX (the cylindrical positions and the distance filter).   *)
(* The grids used are ones on which the doubles and the rationals agree.   *)
(***************************************************************************)
EXTENDS Integers, Naturals, Sequences, FiniteSets, TLC

(***************************************************************************)
(* Bounds of the model.                                                    *)
(***************************************************************************)
\* Grid width of createMergedGeometry / createVolumetricGeometry.  The source
\* sets GEOMETRY_RESOLUTION = 300; the model runs the same code on a grid
\* that is GEOMETRY_RESOLUTION cells wide with the value scaled down.
GEOMETRY_RESOLUTION == 5
\* Largest side of the rectangular corner block of a generated raster.
MaxBlock == 2
\* Number of generation requests one renderer instance receives.
MaxRuns == 3

(***************************************************************************)
(* Program constants.                                                      *)
(***************************************************************************)
MESH_SCALE == 4
MergedAlphaThreshold == 10
VolumetricAlphaThreshold == 50
alphaThreshold == 50
depthThreshold == 20
OpaqueAlpha == 250
step == 2
SyncStep == 4
SyncThreshold == 20
CHUNK_SIZE == 50
Sentinel == -1

(***************************************************************************)
(* Variables.                                                              *)
(***************************************************************************)
VARIABLES
    \* ---- one call of a geometry generator --------------------------------
    variant,            \* which generator runs: "merged", "volumetric", "async",
                        \* "sync" (createMeshFromData)
    resolution,         \* the grid width the resampling generators are built with
    model,              \* settings.model
    prev,               \* what the previous call with the same rasters returned
    imgW, imgH,         \* img.width, img.height of the front colour image
    fAlpha,             \* alpha channel of the front colour canvas, row-major
    fDepth,             \* red channel of the front depth canvas, row-major
    hasBackImg,         \* backImgSrc is not null
    hasBackDepth,       \* backDepthSrc is not null
    bAlpha,             \* alpha channel of the back colour canvas
    bDepth,             \* red channel of the back depth canvas
    isBack,             \* createVolumetricGeometry's isBack argument
    displacementScale,  \* in tenths (the slider's step is 0.1)
    pc,                 \* the call's promise and position: "loading" (pending, images
                        \* in flight), "start" (images decoded), "chunk" (a frame
                        \* callback is scheduled), "resolved", "rejected"
    y,                  \* processChunk's row cursor
    ticks,              \* number of calls of processChunk the call has made
    vertices,           \* one entry per pushed vertex: the cell and side it came from
    gridFront,          \* gridFront (merged) / grid (volumetric, async)
    gridBack,           \* gridBack (merged)
    indices,            \* the index array, as a sequence of triangles
    hasIndex            \* geometry.setIndex was called

geoVars == <<variant, resolution, model, prev, imgW, imgH, fAlpha, fDepth,
             hasBackImg, hasBackDepth,
             bAlpha, bDepth, isBack, displacementScale, pc, y, ticks, vertices,
             gridFront, gridBack, indices, hasIndex>>

VARIABLES
    \* ---- decoding of the source images of one generator call --------------
    images,             \* per requested image: "loading", "loaded" or "error"
    allImages,          \* state of Promise.all(promises) in createMergedGeometry
    loaded,             \* createVolumetricGeometry's counter
    hasError            \* createVolumetricGeometry's flag

loadVars == <<images, allImages, loaded, hasError>>

VARIABLES
    \* ---- a renderer component and the generation requests it has started --
    rKind,              \* "progressive" (part_003 GeneratedMesh), "merged" (Viewer3D.tsx
                        \* ModelRenderer), "volumetric" (part_002 ModelRenderer),
                        \* "sync" (part_002 GeneratedMesh)
    nRuns,              \* number of effect runs that started a generation
    active,             \* per run: the closure's `active` flag (progressive)
    rpc,                \* per run: position of its (front) generation
    bpc,                \* per run: position of its back-side generation (volumetric)
    rows,               \* per run: the row cursor y of createMeshFromDataAsync
    rowCount,           \* per run: h of its images
    runBack,            \* per run: the props carried a back image and a back depth map
    timers,             \* pending setTimeout callbacks, in firing order
    geometry,           \* run whose result is held in geometry / frontGeo, 0 for null
    backGeo,            \* run whose result is held in backGeo, 0 for null
    texture,            \* run whose texture is held, 0 for null
    progress,           \* last value handed to the onProgress prop
    reports,            \* per run: number of calls of the onProgress prop
    lastReport,         \* per run: the last value it reported, and the row cursor then
    isGenerating,
    propScale,          \* settings.displacementScale of the current props, in tenths
    runScale,           \* per run: the displacementScale its closure captured
    meshScaleZ          \* meshRef.current.scale.z, in tenths

rendVars == <<rKind, nRuns, active, rpc, bpc, rows, rowCount, runBack, timers,
              geometry, backGeo, texture, progress, reports, lastReport,
              isGenerating, propScale, runScale, meshScaleZ>>

VARIABLES
    \* ---- the two-view App component (App.tsx:19-84) ------------------------
    originalImage,      \* useState: the uploaded image, NullImage for null
    backImage,          \* useState: the back view shown and handed to the viewer
    frontDepthMap,      \* useState: depth map of the front view, NullDepth for null
    backDepthMap,       \* useState: depth map of the back view
    status,             \* useState: status.status
    appProgress,        \* useState: progress
    uploads,            \* number of files chosen so far; every file is another image
    readers,            \* FileReaders started by handleImageUpload, not yet loaded
    tasks               \* the calls of processImage, in the order of the clicks

appVars == <<originalImage, backImage, frontDepthMap, backDepthMap, status,
             appProgress, uploads, readers, tasks>>

vars == <<geoVars, loadVars, rendVars, appVars>>

(***************************************************************************)
(* Arithmetic helpers.                                                     *)
(***************************************************************************)
\* Fixed-point unit of the cylindrical positions: 1/FX.
FX == 100 * 100
\* Math.PI in units of 1/FX.
PiFX == 31416

Abs(n) == IF n < 0 THEN -n ELSE n
Min(a, b) == IF a < b THEN a ELSE b

\* Math.round(n / d) for n >= 0, d > 0.
Round(n, d) == (2 * n + d) \div (2 * d)

\* Exact rationals <<numerator, denominator>>, denominator >= 0.  The only
\* division by zero the generators make is 0 / 0 (u on a grid one cell wide,
\* v on a grid one cell high): a zero denominator stands for NaN, and stays
\* zero through sums and products as NaN does.
RatAdd(p, q) == <<p[1] * q[2] + q[1] * p[2], p[2] * q[2]>>
RatMulInt(p, n) == <<p[1] * n, p[2]>>
RatNeg(p) == <<-p[1], p[2]>>
RatIsNaN(p) == p[2] = 0
RatIsInt(p) == ~RatIsNaN(p) /\ p[1] % p[2] = 0
RatInt(p) == p[1] \div p[2]

\* sin and cos of t/FX radians, 0 <= t <= PiFX \div 2, in units of 1/FX
\* (Taylor polynomials; the products are staged to stay within 32 bits).
SinFX(t) ==
    LET t2 == (t * t) \div FX
        t3 == (t2 * t) \div FX
        t5 == (t3 * t2) \div FX
        t7 == (t5 * t2) \div FX
        t9 == ((t7 \div 10) * t2) \div (FX \div 10)
    IN  t - (t3 \div 6) + (t5 \div 120) - (t7 \div 5040) + (t9 \div 362880)

CosFX(t) ==
    LET t2 == (t * t) \div FX
        t4 == (t2 * t2) \div FX
        t6 == (t4 * t2) \div FX
        t8 == (t6 * t2) \div FX
    IN  FX - (t2 \div 2) + (t4 \div 24) - (t6 \div 720) + (t8 \div 40320)

(***************************************************************************)
(* The sampling grid.                                                      *)
(***************************************************************************)
\* The sampling step of the generators that read the image at its own size
\* (1 stands for the generators that draw the image scaled to the grid).
StepOf(v) == IF v = "async" THEN step ELSE IF v = "sync" THEN SyncStep ELSE 1

\* w and h of the generators, from the variant and the image size.
WidthOf(v, iw) == IF StepOf(v) > 1 THEN iw \div StepOf(v) ELSE resolution
HeightOf(v, iw, ih) ==
    IF StepOf(v) > 1 THEN ih \div StepOf(v)
    ELSE Round(resolution * ih, iw)

w == WidthOf(variant, imgW)
h == HeightOf(variant, imgW, imgH)

\* Size of the canvas the pixel arrays are read from: w x h for the two
\* generators that draw the image scaled to the grid, the image's own size for
\* createMeshFromDataAsync.
CanvasW(v, iw) == IF StepOf(v) > 1 THEN iw ELSE resolution
CanvasH(v, iw, ih) == IF StepOf(v) > 1 THEN ih ELSE HeightOf(v, iw, ih)

\* Index of cell (x, y) in the channel arrays: idx / 4 and i / 4 in the scaled
\* generators, pixelIndex / 4 in createMeshFromDataAsync.
PixelIndex(x, yy) ==
    IF StepOf(variant) > 1
    THEN (yy * StepOf(variant)) * imgW + x * StepOf(variant)
    ELSE yy * w + x

CellX(k) == k % w
CellY(k) == k \div w

(***************************************************************************)
(* Vertex synthesis.  The accumulator st holds the arrays a generator      *)
(* fills: vertices (vertexCount is its length), gridFront and gridBack.    *)
(* A vertex is kept as the cell and side it was synthesized from; its      *)
(* position, UV and colour are functions of those.                         *)
(***************************************************************************)
Vertex(x, yy, back) == [x |-> x, y |-> yy, back |-> back]

\* u = x / (w - 1) and v = 1 - (y / (h - 1)) of a vertex.
UOf(vtx) == <<vtx.x, w - 1>>
VOf(vtx) == <<(h - 1) - vtx.y, h - 1>>

\* An Int32Array store arr[slot] = val: ignored unless slot is an integer
\* index of the array.
TypedArraySet(arr, slot, val) ==
    IF RatIsInt(slot) /\ RatInt(slot) \in DOMAIN arr
    THEN [arr EXCEPT ![RatInt(slot)] = val]
    ELSE arr

\* ---- createMergedGeometry ------------------------------------------------
\* posX = (u - 0.5) * MESH_SCALE with u = x / (w - 1).
MergedPosX(x) == <<(2 * x - (w - 1)) * MESH_SCALE, 2 * (w - 1)>>
\* posY = (v - 0.5) * MESH_SCALE / aspect with v = 1 - y / (h - 1) and
\* aspect = fImg.width / fImg.height.
MergedPosY(yy) == <<((h - 1) - 2 * yy) * MESH_SCALE * imgH, 2 * (h - 1) * imgW>>

\* addVertex(x, y, z, r, g, b, u, v, isBack): its parameters x and y shadow
\* the loop's cell coordinates and hold the position the caller passes, so the
\* slot written is posY * w + posX.
addVertex(st, px, py, cell, back) ==
    LET slot == RatAdd(RatMulInt(py, w), px)
        vertexCount == Len(st.vertices)
    IN  [vertices |-> Append(st.vertices, Vertex(CellX(cell), CellY(cell), back)),
         gridFront |-> IF back THEN st.gridFront
                       ELSE TypedArraySet(st.gridFront, slot, vertexCount),
         gridBack |-> IF back THEN TypedArraySet(st.gridBack, slot, vertexCount)
                      ELSE st.gridBack]

\* fAlpha > 10, bAlpha > 10.
MergedVisible(a) == a > MergedAlphaThreshold

\* bImg and bDepth are loaded only when both sources are given, so
\* bColorData && bDepthData holds exactly then.
HasBackData == hasBackImg /\ hasBackDepth

\* Mutant: without a back pair the back side is synthesized from the front
\* rasters.
MergedCellBackFromFront(st, k) ==
    LET x == CellX(k)
        yy == CellY(k)
        st1 == IF MergedVisible(fAlpha[PixelIndex(x, yy)])
               THEN addVertex(st, MergedPosX(x), MergedPosY(yy), k, FALSE)
               ELSE st
        back == IF HasBackData THEN bAlpha ELSE fAlpha
    IN  IF MergedVisible(back[PixelIndex(x, yy)])
        THEN addVertex(st1, RatNeg(MergedPosX(x)), MergedPosY(yy), k, TRUE)
        ELSE st1

\* Mutant: the back vertex of a cell is added before its front vertex.
MergedCellBackFirst(st, k) ==
    LET x == CellX(k)
        yy == CellY(k)
        st1 == IF HasBackData /\ MergedVisible(bAlpha[PixelIndex(x, yy)])
               THEN addVertex(st, RatNeg(MergedPosX(x)), MergedPosY(yy), k, TRUE)
               ELSE st
    IN  IF MergedVisible(fAlpha[PixelIndex(x, yy)])
        THEN addVertex(st1, MergedPosX(x), MergedPosY(yy), k, FALSE)
        ELSE st1

MergedCell(st, k) ==
    LET x == CellX(k)
        yy == CellY(k)
        st1 == IF MergedVisible(fAlpha[PixelIndex(x, yy)])
               THEN addVertex(st, MergedPosX(x), MergedPosY(yy), k, FALSE)
               ELSE st
    IN  IF HasBackData /\ MergedVisible(bAlpha[PixelIndex(x, yy)])
        THEN addVertex(st1, RatNeg(MergedPosX(x)), MergedPosY(yy), k, TRUE)
        ELSE st1

\* ---- createVolumetricGeometry ---------------------------------------------
\* Mutant: the alpha test is dropped.
VolumetricVisibleAlways(a) == a >= 0

\* if (alpha < 50) continue;
VolumetricVisible(a) == ~(a < VolumetricAlphaThreshold)

PushVertex(st, k) ==
    [st EXCEPT !.vertices = Append(st.vertices, Vertex(CellX(k), CellY(k), isBack)),
               !.gridFront = [st.gridFront EXCEPT ![CellY(k) * w + CellX(k)] =
                                 Len(st.vertices)]]

VolumetricCell(st, k) ==
    IF VolumetricVisible(fAlpha[PixelIndex(CellX(k), CellY(k))])
    THEN PushVertex(st, k)
    ELSE st

\* ---- createMeshFromDataAsync ----------------------------------------------
isBackground(alpha, depthVal) ==
    alpha < alphaThreshold \/ (alpha > OpaqueAlpha /\ depthVal < depthThreshold)

AsyncCell(st, k) ==
    IF isBackground(fAlpha[PixelIndex(CellX(k), CellY(k))],
                    fDepth[PixelIndex(CellX(k), CellY(k))])
    THEN st
    ELSE PushVertex(st, k)

\* ---- createMeshFromData ----------------------------------------------------
\* if (r < threshold) continue; the alpha channel is not read.
SyncCell(st, k) ==
    IF fDepth[PixelIndex(CellX(k), CellY(k))] < SyncThreshold
    THEN st
    ELSE PushVertex(st, k)

\* ---- the row loops ----------------------------------------------------------
SynthCell(st, k) ==
    CASE variant = "merged" -> MergedCell(st, k)
      [] variant = "volumetric" -> VolumetricCell(st, k)
      [] variant = "sync" -> SyncCell(st, k)
      [] OTHER -> AsyncCell(st, k)

\* Cells k .. kEnd-1 in row-major order (for y ... for x ...); the range is
\* halved to keep the evaluation shallow, the order of the cells is the loop's.
RECURSIVE SynthCells(_, _, _)
SynthCells(st, k, kEnd) ==
    IF k >= kEnd THEN st
    ELSE IF kEnd = k + 1 THEN SynthCell(st, k)
    ELSE LET mid == (k + kEnd) \div 2
             left == SynthCells(st, k, mid)
         IN  IF Len(left.vertices) >= 0 THEN SynthCells(left, mid, kEnd) ELSE left

\* new Int32Array(w * h).fill(-1)
EmptyGrid == [k \in 0 .. (w * h - 1) |-> Sentinel]

(***************************************************************************)
(* Cylindrical positions (createVolumetricGeometry), in units of 1/FX.     *)
(***************************************************************************)
\* |(u - 0.5) * arcAngle| with arcAngle = Math.PI * 0.9 and u = x / (w - 1).
ThetaAbsFX(x) == (Abs(2 * x - (w - 1)) * 9 * PiFX) \div (20 * (w - 1))
\* sin(theta) and cos(theta) for theta = (u - 0.5) * arcAngle + angleOffset,
\* angleOffset = isBack ? Math.PI : 0.
SinThetaFX(x, back) ==
    LET s == IF 2 * x < w - 1 THEN -SinFX(ThetaAbsFX(x)) ELSE SinFX(ThetaAbsFX(x))
    IN  IF back THEN -s ELSE s
CosThetaFX(x, back) ==
    IF back THEN -CosFX(ThetaAbsFX(x)) ELSE CosFX(ThetaAbsFX(x))
\* r = radiusBase * 0.5 + dVal * displacementScale * 0.6, dVal = depth / 255.
RadiusFX(depthVal) == (FX \div 4) + (depthVal * displacementScale * 6 * FX) \div (255 * 100)
\* vy = (v - 0.5) * heightScale with heightScale = 4.0.
VolumetricYFX(yy) == (((h - 1) - 2 * yy) * 2 * FX) \div (h - 1)

VolumetricPos(vtx) ==
    LET r == RadiusFX(fDepth[PixelIndex(vtx.x, vtx.y)])
    IN  <<(r * SinThetaFX(vtx.x, vtx.back)) \div FX,
          VolumetricYFX(vtx.y),
          (r * CosThetaFX(vtx.x, vtx.back)) \div FX>>

\* Squared Euclidean distance in units of (1/1000)^2.
DistSq(p, q) ==
    LET dx == (p[1] - q[1]) \div 10
        dy == (p[2] - q[2]) \div 10
        dz == (p[3] - q[3]) \div 10
    IN  dx * dx + dy * dy + dz * dz
\* dist < 0.2
Near(p, q) == DistSq(p, q) < 200 * 200

(***************************************************************************)
(* The displaced axis of the planar generators, as exact rationals.  The   *)
(* denominator of a vertex's z does not depend on displacementScale.       *)
(***************************************************************************)
\* Math.min(u, 1 - u) * 2 for u = i / (n - 1), as a numerator over n - 1.
EdgeDist(i, n) == 2 * Min(i, (n - 1) - i)
\* const taperStrength = isTripoMode ? 8.0 : 4.0 with isTripo = model === 'TripoSR'
taperStrength(mdl) == IF mdl = "TripoSR" THEN 8 ELSE 4
\* geoTaper = Math.min(1, Math.min(distU, distV) * taperStrength)
geoTaper(vtx, mdl) ==
    LET du == <<EdgeDist(vtx.x, w), w - 1>>
        dv == <<EdgeDist(vtx.y, h), h - 1>>
        m == IF du[1] * dv[2] <= dv[1] * du[2] THEN du ELSE dv
        t == <<m[1] * taperStrength(mdl), m[2]>>
    IN  IF w = 1 \/ h = 1 THEN <<0, 0>>
        ELSE IF t[1] >= t[2] THEN <<1, 1>> ELSE t

\* The raw depth and alpha a vertex was synthesized from.
DepthOf(vtx) ==
    IF vtx.back /\ variant = "merged" THEN bDepth[PixelIndex(vtx.x, vtx.y)]
    ELSE fDepth[PixelIndex(vtx.x, vtx.y)]
AlphaOf(vtx) ==
    IF vtx.back /\ variant = "merged" THEN bAlpha[PixelIndex(vtx.x, vtx.y)]
    ELSE fAlpha[PixelIndex(vtx.x, vtx.y)]

\* createMergedGeometry: z = (dVal * displacementScale * 0.5) * finalTaper with
\* finalTaper = geoTaper * alphaFactor; negated on the back side.
MergedZ(vtx, scale, mdl) ==
    LET g == geoTaper(vtx, mdl)
        n == DepthOf(vtx) * scale * AlphaOf(vtx) * g[1]
    IN  <<IF vtx.back THEN -n ELSE n, 255 * 10 * 2 * 255 * g[2]>>
\* createMeshFromData: vz = (r / 255) * displacementScale
SyncZ(vtx, scale) == <<DepthOf(vtx) * scale, 255 * 10>>
\* createMeshFromDataAsync: vz = (depthVal / 255); displacementScale is not used
AsyncZ(vtx) == <<DepthOf(vtx), 255>>

PlanarZ(vtx, scale, mdl) ==
    CASE variant = "merged" -> MergedZ(vtx, scale, mdl)
      [] variant = "sync" -> SyncZ(vtx, scale)
      [] OTHER -> AsyncZ(vtx)

(***************************************************************************)
(* Face triangulation.                                                     *)
(***************************************************************************)
\* a, b, c, d of the block whose top-left cell is (x, y).
Block(g, x, yy) ==
    [a |-> g[yy * w + x], b |-> g[yy * w + (x + 1)],
     c |-> g[(yy + 1) * w + x], d |-> g[(yy + 1) * w + (x + 1)]]

\* Mutant: the test forgets the fourth corner d.
CompleteForgetsD(q) == q.a # Sentinel /\ q.b # Sentinel /\ q.c # Sentinel

\* a !== -1 && b !== -1 && c !== -1 && d !== -1
Complete(q) == q.a # Sentinel /\ q.b # Sentinel /\ q.c # Sentinel /\ q.d # Sentinel

\* createMergedGeometry, front: addFace(a, d, b); addFace(d, c, b).
MergedFrontFaces(q) ==
    IF Complete(q) THEN << <<q.a, q.d, q.b>>, <<q.d, q.c, q.b>> >> ELSE << >>
\* createMergedGeometry, back: addFace(a, b, d); addFace(d, c, b).
MergedBackFaces(q) ==
    IF Complete(q) THEN << <<q.a, q.b, q.d>>, <<q.d, q.c, q.b>> >> ELSE << >>
\* createVolumetricGeometry: distAB < 0.2 && distAC < 0.2, then
\* indices.push(a, d, b); indices.push(a, c, d).
VolumetricKeep(q, vs) ==
    /\ Near(VolumetricPos(vs[q.a + 1]), VolumetricPos(vs[q.b + 1]))
    /\ Near(VolumetricPos(vs[q.a + 1]), VolumetricPos(vs[q.c + 1]))
VolumetricFaces(q, vs) ==
    IF Complete(q) /\ VolumetricKeep(q, vs)
    THEN << <<q.a, q.d, q.b>>, <<q.a, q.c, q.d>> >> ELSE << >>
\* Mutant: only the first triangle of a block is pushed.
AsyncFacesFirstOnly(q) ==
    IF Complete(q) THEN << <<q.a, q.c, q.b>> >> ELSE << >>

\* createMeshFromDataAsync: indices.push(a, c, b); indices.push(b, c, d).
AsyncFaces(q) ==
    IF Complete(q) THEN << <<q.a, q.c, q.b>>, <<q.b, q.c, q.d>> >> ELSE << >>

BlockFaces(kind, q, vs) ==
    CASE kind = "mergedFront" -> MergedFrontFaces(q)
      [] kind = "mergedBack" -> MergedBackFaces(q)
      [] kind = "volumetric" -> VolumetricFaces(q, vs)
      [] OTHER -> AsyncFaces(q)

\* for (y = 0; y < h - 1; y++) for (x = 0; x < w - 1; x++): the faces of the
\* blocks n .. nEnd-1 in row-major order (the range is halved as above).
RECURSIVE FacesOf(_, _, _, _, _)
FacesOf(kind, g, vs, n, nEnd) ==
    IF n >= nEnd THEN << >>
    ELSE IF nEnd = n + 1
         THEN BlockFaces(kind, Block(g, n % (w - 1), n \div (w - 1)), vs)
    ELSE LET mid == (n + nEnd) \div 2
         IN  FacesOf(kind, g, vs, n, mid) \o FacesOf(kind, g, vs, mid, nEnd)

Faces(kind, g, vs) ==
    IF w < 2 \/ h < 2 THEN << >> ELSE FacesOf(kind, g, vs, 0, (w - 1) * (h - 1))

\* The index array a generator builds from the synthesized arrays.  The back
\* triangulation of createMergedGeometry is guarded by bColorData.
Triangulate(st) ==
    CASE variant = "merged" ->
            Faces("mergedFront", st.gridFront, st.vertices)
            \o (IF HasBackData
                THEN Faces("mergedBack", st.gridBack, st.vertices)
                ELSE << >>)
      [] variant = "volumetric" -> Faces("volumetric", st.gridFront, st.vertices)
      [] OTHER -> Faces("async", st.gridFront, st.vertices)

(***************************************************************************)
(* Inputs of a generator call: image sizes and rasters drawn from bounded  *)
(* families.  A raster has one value inside a rectangular block at a       *)
(* corner of the grid and another value everywhere else.                   *)
(***************************************************************************)
AlphaVals == {0, 30, 255}
DepthVals == {0, 10, 255}
DisplacementScales == {10}
Corners == {"TL", "BR"}

\* The calls explored: the generator, and the size of the front colour image.
GeoConfigs ==
    {[variant |-> "merged", imgW |-> 5, imgH |-> 3],
     [variant |-> "volumetric", imgW |-> 5, imgH |-> 22],
     [variant |-> "async", imgW |-> 4, imgH |-> 4],
     [variant |-> "async", imgW |-> 7, imgH |-> 5],
     [variant |-> "async", imgW |-> 4, imgH |-> 102],
     \* grids one cell high or one cell wide
     [variant |-> "merged", imgW |-> 5, imgH |-> 1],
     [variant |-> "volumetric", imgW |-> 5, imgH |-> 1],
     [variant |-> "async", imgW |-> 4, imgH |-> 2],
     [variant |-> "async", imgW |-> 2, imgH |-> 4]}

InBlock(x, yy, gw, gh, corner, bw, bh) ==
    IF corner = "TL" THEN x < bw /\ yy < bh
    ELSE x >= gw - bw /\ yy >= gh - bh

\* The canvas of cfg whose grid cells inside the block hold in, the others out.
BlockRaster(cfg, out, in, corner, bw, bh) ==
    LET cw == CanvasW(cfg.variant, cfg.imgW)
        ch == CanvasH(cfg.variant, cfg.imgW, cfg.imgH)
        s == StepOf(cfg.variant)
        gw == WidthOf(cfg.variant, cfg.imgW)
        gh == HeightOf(cfg.variant, cfg.imgW, cfg.imgH)
    IN  [p \in 0 .. (cw * ch - 1) |->
            IF InBlock((p % cw) \div s, (p \div cw) \div s, gw, gh, corner, bw, bh)
            THEN in ELSE out]

AlphaRasters(cfg) ==
    {BlockRaster(cfg, out, in, corner, bw, bh) :
        out \in AlphaVals, in \in AlphaVals, corner \in Corners,
        bw \in 1 .. MaxBlock, bh \in 1 .. MaxBlock}
DepthRasters(cfg) ==
    {BlockRaster(cfg, out, in, "TL", MaxBlock, MaxBlock) :
        out \in DepthVals, in \in DepthVals}
BackAlphaRasters(cfg) ==
    {BlockRaster(cfg, out, 0, "TL", 1, 1) : out \in {0, 255}}
BackDepthRasters(cfg) ==
    {BlockRaster(cfg, 255, 255, "TL", 1, 1)}

NoRaster == << >>

\* Nothing is built before the generator runs.
NoArrays ==
    /\ y = 0
    /\ ticks = 0
    /\ vertices = << >>
    /\ gridFront = << >>
    /\ gridBack = << >>
    /\ indices = << >>
    /\ hasIndex = FALSE

\* The image decoding is not part of the behaviour.
NoLoads ==
    /\ images = << >>
    /\ allImages = "none"
    /\ loaded = 0
    /\ hasError = FALSE

Runs == 1..MaxRuns

\* A renderer right after mounting: useState(null), no effect has run.
FreshRenderer ==
    /\ nRuns = 0
    /\ active = [r \in Runs |-> FALSE]
    /\ rpc = [r \in Runs |-> "none"]
    /\ bpc = [r \in Runs |-> "none"]
    /\ rows = [r \in Runs |-> 0]
    /\ rowCount = [r \in Runs |-> 0]
    /\ runBack = [r \in Runs |-> FALSE]
    /\ timers = << >>
    /\ geometry = 0
    /\ backGeo = 0
    /\ texture = 0
    /\ progress = <<0, 1>>
    /\ reports = [r \in Runs |-> 0]
    /\ lastReport = [r \in Runs |-> [value |-> <<0, 1>>, rows |-> 0]]
    /\ isGenerating = FALSE
    /\ propScale = 10
    /\ runScale = [r \in Runs |-> 0]
    /\ meshScaleZ = 10

\* No renderer is part of the behaviour.
NoRenderer ==
    /\ rKind = "none"
    /\ FreshRenderer

\* An image is told by the upload it came from and by the side it shows.
NullImage == [src |-> 0, view |-> "none"]

\* A depth map is told by the image it was computed from.
NullDepth == [of |-> NullImage]

\* The App component right after mounting: the useState initial values.
FreshApp ==
    /\ originalImage = NullImage
    /\ backImage = NullImage
    /\ frontDepthMap = NullDepth
    /\ backDepthMap = NullDepth
    /\ status = "idle"
    /\ appProgress = 0
    /\ uploads = 0
    /\ readers = {}
    /\ tasks = << >>

\* The App component is not part of the behaviour.
NoApp == FreshApp

\* No earlier call is part of the behaviour.
NoPass == [called |-> FALSE]

InitGeo ==
    \E cfg \in GeoConfigs :
        /\ variant = cfg.variant
        /\ resolution = GEOMETRY_RESOLUTION
        /\ model = "TripoSR"
        /\ prev = NoPass
        /\ imgW = cfg.imgW
        /\ imgH = cfg.imgH
        /\ fAlpha \in AlphaRasters(cfg)
        /\ fDepth \in DepthRasters(cfg)
        /\ IF cfg.variant = "merged"
           THEN /\ hasBackImg \in BOOLEAN
                /\ hasBackDepth \in BOOLEAN
                /\ IF hasBackImg /\ hasBackDepth
                   THEN /\ bAlpha \in BackAlphaRasters(cfg)
                        /\ bDepth \in BackDepthRasters(cfg)
                   ELSE /\ bAlpha = NoRaster
                        /\ bDepth = NoRaster
           ELSE /\ hasBackImg = FALSE
                /\ hasBackDepth = FALSE
                /\ bAlpha = NoRaster
                /\ bDepth = NoRaster
        /\ isBack \in (IF cfg.variant = "volumetric" THEN BOOLEAN ELSE {FALSE})
        /\ displacementScale \in DisplacementScales
        /\ pc = "start"
        /\ NoArrays
        /\ NoLoads
        /\ NoRenderer
        /\ NoApp

geoInputs == <<variant, resolution, model, prev, imgW, imgH, fAlpha, fDepth,
               hasBackImg, hasBackDepth,
               bAlpha, bDepth, isBack, displacementScale>>

(***************************************************************************)
(* The generator calls.                                                    *)
(***************************************************************************)
\* Mutant: a later call goes on with the arrays of the call before it.
StaleArrays ==
    IF prev.called
    THEN [vertices |-> vertices, gridFront |-> gridFront, gridBack |-> gridBack]
    ELSE [vertices |-> << >>, gridFront |-> EmptyGrid, gridBack |-> EmptyGrid]

\* The arrays are locals of the call, created empty by each call.
FreshArrays == [vertices |-> << >>, gridFront |-> EmptyGrid, gridBack |-> EmptyGrid]

\* createMergedGeometry's then-handler, createVolumetricGeometry's process()
\* and createMeshFromData: the vertex loop, the face loops, setIndex, and
\* resolve(geometry) or return geometry.
ProcessBody ==
    /\ LET st == SynthCells(FreshArrays, 0, w * h)
       IN  /\ vertices' = st.vertices
           /\ gridFront' = st.gridFront
           /\ gridBack' = st.gridBack
           /\ indices' = Triangulate(st)
    /\ hasIndex' = TRUE
    /\ pc' = "resolved"
    /\ UNCHANGED <<geoInputs, y, ticks>>

Process ==
    /\ variant \in {"merged", "volumetric", "sync"}
    /\ pc = "start"
    /\ ProcessBody
    /\ UNCHANGED <<loadVars, rendVars, appVars>>

\* Mutant: the index loop runs at the end of every chunk.
MoreRowsNever(yy) == FALSE

\* if (y < h) requestAnimationFrame(processChunk); else { index loop ... }
MoreRows(yy) == yy < h

\* Mutant: one call of processChunk runs through all the rows left.
ChunkEndAllRows(yy) == h

\* const endY = Math.min(y + CHUNK_SIZE, h)
ChunkEnd(yy) == Min(yy + CHUNK_SIZE, h)

\* processChunk: up to CHUNK_SIZE rows, then either requestAnimationFrame
\* (processChunk) or the index loop, the empty-geometry guard and resolve.
\* The first call is made by the promise executor, the later ones by frames.
ProcessChunk ==
    /\ variant = "async"
    /\ pc \in {"start", "chunk"}
    /\ LET endY == ChunkEnd(y)
           st0 == IF pc = "start" THEN FreshArrays
                  ELSE [vertices |-> vertices, gridFront |-> gridFront,
                        gridBack |-> gridBack]
           st == SynthCells(st0, y * w, endY * w)
       IN  /\ y' = endY
           /\ ticks' = ticks + 1
           /\ vertices' = st.vertices
           /\ gridFront' = st.gridFront
           /\ gridBack' = st.gridBack
           /\ IF MoreRows(endY)
              THEN /\ pc' = "chunk"
                   /\ UNCHANGED <<indices, hasIndex>>
              ELSE /\ pc' = "resolved"
                   /\ indices' = (IF Len(st.vertices) > 0 THEN Triangulate(st) ELSE << >>)
                   /\ hasIndex' = (Len(st.vertices) > 0)
    /\ UNCHANGED <<geoInputs, loadVars, rendVars, appVars>>

NextGeo == Process \/ ProcessChunk

SpecGeo == InitGeo /\ [][NextGeo]_vars

(***************************************************************************)
(* Two calls of a generator on the same rasters.  The renderer's effect    *)
(* calls the generator again when a dependency changes; the geometry of    *)
(* the first call is kept for comparison, and still held, while the second *)
(* call runs with the displacementScale and model of its own.              *)
(***************************************************************************)
Models == {"TripoSR", "Trellis", "Point-E"}
PassScales == {5, 10, 20}

\* Depth of the cells of one grid row in the 4 x 4 example.
ScenarioDepthRow == <<0, 85, 170, 255>>

PassConfigs ==
    {[variant |-> "merged", res |-> GEOMETRY_RESOLUTION, imgW |-> 5, imgH |-> 3],
     [variant |-> "merged", res |-> Len(ScenarioDepthRow), imgW |-> 4, imgH |-> 4],
     [variant |-> "volumetric", res |-> GEOMETRY_RESOLUTION, imgW |-> 5, imgH |-> 22],
     [variant |-> "sync", res |-> 0, imgW |-> 16, imgH |-> 16],
     [variant |-> "sync", res |-> 0, imgW |-> 8, imgH |-> 12],
     [variant |-> "async", res |-> 0, imgW |-> 8, imgH |-> 8],
     [variant |-> "async", res |-> 0, imgW |-> 4, imgH |-> 102]}

\* The canvas of cfg whose grid cell (x, y) holds ScenarioDepthRow[x + 1].
ScenarioRaster(cfg) ==
    LET cw == CanvasW(cfg.variant, cfg.imgW)
        ch == CanvasH(cfg.variant, cfg.imgW, cfg.imgH)
    IN  [p \in 0 .. (cw * ch - 1) |->
            ScenarioDepthRow[((p % cw) \div StepOf(cfg.variant)) + 1]]

PassAlphaRasters(cfg) ==
    {BlockRaster(cfg, 255, in, "TL", 1, 1) : in \in AlphaVals}
PassDepthRasters(cfg) ==
    {BlockRaster(cfg, 255, in, "TL", MaxBlock, MaxBlock) : in \in {0, 255}}
    \cup (IF WidthOf(cfg.variant, cfg.imgW) = Len(ScenarioDepthRow)
          THEN {ScenarioRaster(cfg)} ELSE {})

InitPasses ==
    \E cfg \in PassConfigs :
        /\ variant = cfg.variant
        /\ resolution = cfg.res
        /\ model \in Models
        /\ prev = NoPass
        /\ imgW = cfg.imgW
        /\ imgH = cfg.imgH
        /\ fAlpha \in PassAlphaRasters(cfg)
        /\ fDepth \in PassDepthRasters(cfg)
        /\ IF cfg.variant = "merged"
           THEN /\ hasBackImg \in BOOLEAN
                /\ hasBackDepth = hasBackImg
                /\ IF hasBackImg
                   THEN /\ bAlpha = BlockRaster(cfg, 255, 0, "TL", 1, 1)
                        /\ bDepth = BlockRaster(cfg, 255, 255, "TL", 1, 1)
                   ELSE /\ bAlpha = NoRaster
                        /\ bDepth = NoRaster
           ELSE /\ hasBackImg = FALSE
                /\ hasBackDepth = FALSE
                /\ bAlpha = NoRaster
                /\ bDepth = NoRaster
        /\ isBack = FALSE
        /\ displacementScale \in PassScales
        /\ pc = "start"
        /\ NoArrays
        /\ NoLoads
        /\ NoRenderer
        /\ NoApp

\* The geometry a resolved call handed over, and the arguments it was built with.
Snapshot ==
    [called |-> TRUE, vertices |-> vertices, gridFront |-> gridFront,
     gridBack |-> gridBack, indices |-> indices, hasIndex |-> hasIndex,
     displacementScale |-> displacementScale, model |-> model]

\* The generator is called once more, on the same rasters, with scale s and
\* model m: new locals (let y = 0), the geometry of the first call still held.
CallAgain(s, m) ==
    /\ pc = "resolved"
    /\ ~prev.called
    /\ prev' = Snapshot
    /\ displacementScale' = s
    /\ model' = m
    /\ pc' = "start"
    /\ y' = 0
    /\ ticks' = 0
    /\ UNCHANGED <<variant, resolution, imgW, imgH, fAlpha, fDepth, hasBackImg,
                   hasBackDepth, bAlpha, bDepth, isBack, vertices, gridFront,
                   gridBack, indices, hasIndex, loadVars, rendVars, appVars>>

NextPasses ==
    \/ Process
    \/ ProcessChunk
    \/ \E s \in PassScales : \E m \in Models : CallAgain(s, m)

SpecPasses == InitPasses /\ [][NextPasses]_vars

(***************************************************************************)
(* createVolumetricGeometry on a grid fine enough for the cells of a flat  *)
(* region to lie within the filter distance of their neighbours, the       *)
(* diagonal one included, as they do at the resolution of the source.      *)
(***************************************************************************)
CylinderConfigs ==
    {[variant |-> "volumetric", res |-> GEOMETRY_RESOLUTION + 3, imgW |-> 8, imgH |-> 31]}

\* Depth maps with a jump along the border of a block at either corner.
CylinderDepthRasters(cfg) ==
    {BlockRaster(cfg, out, in, corner, bw, bh) :
        out \in {0, 10}, in \in DepthVals, corner \in Corners,
        bw \in 1 .. MaxBlock, bh \in {1}}

InitCylinder ==
    \E cfg \in CylinderConfigs :
        /\ variant = cfg.variant
        /\ resolution = cfg.res
        /\ model = "TripoSR"
        /\ prev = NoPass
        /\ imgW = cfg.imgW
        /\ imgH = cfg.imgH
        /\ fAlpha \in PassAlphaRasters(cfg)
        /\ fDepth \in CylinderDepthRasters(cfg)
        /\ hasBackImg = FALSE
        /\ hasBackDepth = FALSE
        /\ bAlpha = NoRaster
        /\ bDepth = NoRaster
        /\ isBack \in BOOLEAN
        /\ displacementScale \in DisplacementScales
        /\ pc = "start"
        /\ NoArrays
        /\ NoLoads
        /\ NoRenderer
        /\ NoApp

NextCylinder == Process

SpecCylinder == InitCylinder /\ [][NextCylinder]_vars

(***************************************************************************)
(* createMeshFromDataAsync on images of 0, 1, 50, 51 and 101 grid rows,    *)
(* with animation frames that keep firing.                                 *)
(***************************************************************************)
ChunkConfigs ==
    {[variant |-> "async", res |-> 0, imgW |-> 4, imgH |-> ih] :
        ih \in {1, step, step * CHUNK_SIZE, step * CHUNK_SIZE + step,
                 2 * step * CHUNK_SIZE + step}}

InitChunks ==
    \E cfg \in ChunkConfigs :
        /\ variant = cfg.variant
        /\ resolution = cfg.res
        /\ model = "TripoSR"
        /\ prev = NoPass
        /\ imgW = cfg.imgW
        /\ imgH = cfg.imgH
        /\ fAlpha \in PassAlphaRasters(cfg)
        /\ fDepth \in DepthRasters(cfg)
        /\ hasBackImg = FALSE
        /\ hasBackDepth = FALSE
        /\ bAlpha = NoRaster
        /\ bDepth = NoRaster
        /\ isBack = FALSE
        /\ displacementScale \in DisplacementScales
        /\ pc = "start"
        /\ NoArrays
        /\ NoLoads
        /\ NoRenderer
        /\ NoApp

NextChunks == ProcessChunk

\* A call of processChunk is due (made by the promise executor or requested
\* with requestAnimationFrame) and is made: the steps of ProcessChunk, told
\* by the count of calls.
FrameRuns ==
    /\ variant = "async"
    /\ pc \in {"start", "chunk"}
    /\ ticks' = ticks + 1

\* requestAnimationFrame(processChunk): a requested frame is eventually run.
SpecChunks == InitChunks /\ [][NextChunks]_vars /\ WF_ticks(FrameRuns)

(***************************************************************************)
(* Decoding of the source images.  createMergedGeometry wraps each image   *)
(* in a promise (loadImg) and continues from Promise.all(promises).then;   *)
(* createVolumetricGeometry counts onload events (checkLoad) and rejects   *)
(* from onerror (handleError).                                             *)
(***************************************************************************)
\* The images a call requests: the back pair only when both sources are given.
ImagesOf(v, both) ==
    IF v = "merged"
    THEN {"fImg", "fDepth"} \cup (IF both THEN {"bImg", "bDepth"} ELSE {})
    ELSE {"img", "dImg"}

LoadConfigs ==
    {[variant |-> "merged", imgW |-> 5, imgH |-> 3],
     [variant |-> "volumetric", imgW |-> 5, imgH |-> 22]}

InitLoad ==
    \E cfg \in LoadConfigs :
        /\ variant = cfg.variant
        /\ resolution = GEOMETRY_RESOLUTION
        /\ model = "TripoSR"
        /\ prev = NoPass
        /\ imgW = cfg.imgW
        /\ imgH = cfg.imgH
        /\ fAlpha \in {BlockRaster(cfg, 255, in, "TL", 1, 1) : in \in AlphaVals}
        /\ fDepth = BlockRaster(cfg, 0, 0, "TL", 1, 1)
        /\ IF cfg.variant = "merged"
           THEN /\ hasBackImg \in BOOLEAN
                /\ hasBackDepth \in BOOLEAN
                /\ IF hasBackImg /\ hasBackDepth
                   THEN /\ bAlpha \in BackAlphaRasters(cfg)
                        /\ bDepth \in BackDepthRasters(cfg)
                   ELSE /\ bAlpha = NoRaster
                        /\ bDepth = NoRaster
           ELSE /\ hasBackImg = FALSE
                /\ hasBackDepth = FALSE
                /\ bAlpha = NoRaster
                /\ bDepth = NoRaster
        /\ isBack \in (IF cfg.variant = "volumetric" THEN BOOLEAN ELSE {FALSE})
        /\ displacementScale \in DisplacementScales
        /\ pc = "loading"
        /\ NoArrays
        /\ images = [i \in ImagesOf(cfg.variant, hasBackImg /\ hasBackDepth) |-> "loading"]
        /\ allImages = (IF cfg.variant = "merged" THEN "pending" ELSE "none")
        /\ loaded = 0
        /\ hasError = FALSE
        /\ NoRenderer
        /\ NoApp

\* img.onload = () => res(img): the image's promise is fulfilled; Promise.all
\* is fulfilled once every promise is.
LoadImgOnload(i) ==
    /\ variant = "merged"
    /\ images[i] = "loading"
    /\ images' = [images EXCEPT ![i] = "loaded"]
    /\ allImages' = (IF allImages = "pending" /\ \A j \in DOMAIN images : images'[j] = "loaded"
                     THEN "fulfilled" ELSE allImages)
    /\ UNCHANGED <<geoVars, loaded, hasError, rendVars, appVars>>

\* img.onerror = rej: the image's promise is rejected, and with it Promise.all.
\* Promise.all(promises).then(handler) is given no rejection handler and the
\* outer promise's reject is not called.
LoadImgOnerror(i) ==
    /\ variant = "merged"
    /\ images[i] = "loading"
    /\ images' = [images EXCEPT ![i] = "error"]
    /\ allImages' = (IF allImages = "pending" THEN "rejected" ELSE allImages)
    /\ UNCHANGED <<geoVars, loaded, hasError, rendVars, appVars>>

\* The then-handler of Promise.all: the whole generation, then resolve.
ThenHandler ==
    /\ variant = "merged"
    /\ pc = "loading"
    /\ allImages = "fulfilled"
    /\ ProcessBody
    /\ allImages' = "handled"
    /\ UNCHANGED <<images, loaded, hasError, rendVars, appVars>>

\* checkLoad: if (hasError) return; loaded++; if (loaded === 2) process();
checkLoad(i) ==
    /\ variant = "volumetric"
    /\ images[i] = "loading"
    /\ images' = [images EXCEPT ![i] = "loaded"]
    /\ IF hasError
       THEN UNCHANGED <<geoVars, loaded>>
       ELSE /\ loaded' = loaded + 1
            /\ IF loaded + 1 = 2 THEN ProcessBody ELSE UNCHANGED geoVars
    /\ UNCHANGED <<allImages, hasError, rendVars, appVars>>

\* handleError: if (hasError) return; hasError = true; reject(...);
handleError(i) ==
    /\ variant = "volumetric"
    /\ images[i] = "loading"
    /\ images' = [images EXCEPT ![i] = "error"]
    /\ IF hasError
       THEN UNCHANGED <<geoVars, hasError>>
       ELSE /\ hasError' = TRUE
            /\ pc' = "rejected"
            /\ UNCHANGED <<geoInputs, y, ticks, vertices, gridFront, gridBack, indices, hasIndex>>
    /\ UNCHANGED <<allImages, loaded, rendVars, appVars>>

NextLoad ==
    \/ \E i \in DOMAIN images : LoadImgOnload(i)
    \/ \E i \in DOMAIN images : LoadImgOnerror(i)
    \/ ThenHandler
    \/ \E i \in DOMAIN images : checkLoad(i)
    \/ \E i \in DOMAIN images : handleError(i)

SpecLoad == InitLoad /\ [][NextLoad]_vars

(***************************************************************************)
(* The renderer components.  Every change of a dependency of the           *)
(* generation effect is a request; a request's generator call is abstract  *)
(* here (its images decode or fail, its rows are synthesized chunk by      *)
(* chunk), and the geometry a call resolves with is named by its run.      *)
(***************************************************************************)
\* Row counts h of the images of a request: one, two and three chunks.
RowCounts == {0, 70, 120}

\* No generator call of its own is part of the behaviour.
NoGeometryCall ==
    /\ variant = "none"
    /\ resolution = 0
    /\ model = "none"
    /\ prev = NoPass
    /\ imgW = 0
    /\ imgH = 0
    /\ fAlpha = NoRaster
    /\ fDepth = NoRaster
    /\ hasBackImg = FALSE
    /\ hasBackDepth = FALSE
    /\ bAlpha = NoRaster
    /\ bDepth = NoRaster
    /\ isBack = FALSE
    /\ displacementScale = 0
    /\ pc = "idle"
    /\ NoArrays
    /\ NoLoads

InitProgressive ==
    /\ rKind = "progressive"
    /\ FreshRenderer
    /\ NoApp
    /\ NoGeometryCall

InitRenderer ==
    /\ rKind \in {"merged", "volumetric", "sync"}
    /\ FreshRenderer
    /\ NoApp
    /\ NoGeometryCall

\* return () => { active = false; } of the previous effect run.
Cleanup == [r \in Runs |-> IF r = nRuns THEN FALSE ELSE active[r]]

\* ---- part_003 GeneratedMesh ---------------------------------------------
\* The effect runs for a new originalImage / depthMap: cleanup of the previous
\* run, let active = true, generate() up to its first await.
StartGenerate(hh) ==
    /\ rKind = "progressive"
    /\ nRuns < MaxRuns
    /\ nRuns' = nRuns + 1
    /\ active' = [Cleanup EXCEPT ![nRuns + 1] = TRUE]
    /\ rpc' = [rpc EXCEPT ![nRuns + 1] = "loading"]
    /\ rowCount' = [rowCount EXCEPT ![nRuns + 1] = hh]
    /\ runScale' = [runScale EXCEPT ![nRuns + 1] = propScale]
    /\ isGenerating' = TRUE
    /\ UNCHANGED <<geoVars, loadVars, appVars, rKind, bpc, rows, runBack, timers, geometry,
                   backGeo, texture, progress, reports,
                   lastReport, propScale, meshScaleZ>>

\* The effect runs with originalImage or depthMap missing: cleanup, then
\* if (!originalImage || !depthMap) return.
ClearInputs ==
    /\ rKind = "progressive"
    /\ nRuns > 0
    /\ active[nRuns]
    /\ active' = Cleanup
    /\ UNCHANGED <<geoVars, loadVars, appVars, rKind, nRuns, rpc, bpc, rows, rowCount, runBack,
                   timers, geometry, backGeo, texture, progress, reports, isGenerating,
                   lastReport, propScale, runScale, meshScaleZ>>

\* if (!active) return;
ActiveAfterLoad(r) == active[r]

\* (p) => { if (active && onProgress) onProgress(p); }
ProgressGuard(r) == active[r]

\* if (active) setGeometry(geo);
GeometryGuardDropped(r) == TRUE
GeometryGuard(r) == active[r]

\* finally { if (active) setIsGenerating(false); }
FinallyGuard(r) == active[r]

\* Mutant: the percentage is cut off instead of rounded.
ReportOfFloor(yy, hh) ==
    IF hh = 0 THEN <<0, 0>> ELSE <<(yy * 100) \div hh, 1>>

\* Math.round((y / h) * 100) as <<value, 1>>; 0 / 0 is NaN and Math.round(NaN)
\* is NaN, <<0, 0>>.
ReportOf(yy, hh) ==
    IF hh = 0 THEN <<0, 0>> ELSE <<Round(yy * 100, hh), 1>>

\* One call of processChunk of run r from row cursor y0: rows up to
\* Math.min(y + CHUNK_SIZE, h), onProgress(Math.round((y / h) * 100)), then
\* another frame is requested or the promise is resolved.
ChunkOf(r, y0) ==
    LET endY == Min(y0 + CHUNK_SIZE, rowCount[r])
    IN  /\ rows' = [rows EXCEPT ![r] = endY]
        /\ IF ProgressGuard(r)
           THEN /\ progress' = ReportOf(endY, rowCount[r])
                /\ reports' = [reports EXCEPT ![r] = reports[r] + 1]
                /\ lastReport' = [lastReport EXCEPT
                                     ![r] = [value |-> ReportOf(endY, rowCount[r]),
                                             rows |-> endY]]
           ELSE UNCHANGED <<progress, reports, lastReport>>
        /\ rpc' = [rpc EXCEPT ![r] = IF endY < rowCount[r] THEN "chunk" ELSE "geoResolved"]

\* Promise.all of the three loads is fulfilled: the continuation up to the
\* second await, with the first processChunk() run by the promise executor.
LoadsResolve(r) ==
    /\ rKind = "progressive"
    /\ rpc[r] = "loading"
    /\ IF ~ActiveAfterLoad(r)
       THEN /\ rpc' = [rpc EXCEPT ![r] = "done"]
            /\ UNCHANGED <<texture, rows, progress, reports, lastReport>>
       ELSE /\ texture' = r
            /\ ChunkOf(r, 0)
    /\ UNCHANGED <<geoVars, loadVars, appVars, rKind, nRuns, active, bpc, rowCount, runBack, timers,
                   geometry, backGeo, isGenerating,
                   propScale, runScale, meshScaleZ>>

\* A load fails: catch (console.error), then finally.
LoadsReject(r) ==
    /\ rKind = "progressive"
    /\ rpc[r] = "loading"
    /\ rpc' = [rpc EXCEPT ![r] = "failed"]
    /\ isGenerating' = (IF FinallyGuard(r) THEN FALSE ELSE isGenerating)
    /\ UNCHANGED <<geoVars, loadVars, appVars, rKind, nRuns, active, bpc, rows, rowCount, runBack,
                   timers, geometry, backGeo, texture, progress, reports,
                   lastReport, propScale, runScale, meshScaleZ>>

\* An animation frame runs the processChunk a run has requested.
FrameTick(r) ==
    /\ rKind = "progressive"
    /\ rpc[r] = "chunk"
    /\ ChunkOf(r, rows[r])
    /\ UNCHANGED <<geoVars, loadVars, appVars, rKind, nRuns, active, bpc, rowCount, runBack, timers,
                   geometry, backGeo, texture, isGenerating,
                   propScale, runScale, meshScaleZ>>

\* The continuation after await createMeshFromDataAsync(...), then finally.
Continue(r) ==
    /\ rKind = "progressive"
    /\ rpc[r] = "geoResolved"
    /\ rpc' = [rpc EXCEPT ![r] = "done"]
    /\ geometry' = (IF GeometryGuard(r) THEN r ELSE geometry)
    /\ isGenerating' = (IF FinallyGuard(r) THEN FALSE ELSE isGenerating)
    /\ UNCHANGED <<geoVars, loadVars, appVars, rKind, nRuns, active, bpc, rows, rowCount, runBack,
                   timers, backGeo, texture, progress, reports,
                   lastReport, propScale, runScale, meshScaleZ>>

NextProgressive ==
    \/ \E hh \in RowCounts : StartGenerate(hh)
    \/ ClearInputs
    \/ \E r \in Runs : LoadsResolve(r)
    \/ \E r \in Runs : LoadsReject(r)
    \/ \E r \in Runs : FrameTick(r)
    \/ \E r \in Runs : Continue(r)

SpecProgressive == InitProgressive /\ [][NextProgressive]_vars

\* ---- the renderers without cancellation ---------------------------------
\* The geometry effect(s) run for changed props.  Viewer3D.tsx ModelRenderer
\* sets a 50 ms timer; part_002 ModelRenderer calls createVolumetricGeometry
\* for the front and, in its second effect, for the back pair or does
\* setBackGeo(null); part_002 GeneratedMesh starts loadImages().
StartRequest(back) ==
    /\ rKind \in {"merged", "volumetric", "sync"}
    /\ nRuns < MaxRuns
    /\ rKind = "sync" => ~back
    /\ nRuns' = nRuns + 1
    /\ runBack' = [runBack EXCEPT ![nRuns + 1] = back]
    /\ runScale' = [runScale EXCEPT ![nRuns + 1] = propScale]
    /\ rpc' = [rpc EXCEPT ![nRuns + 1] = IF rKind = "merged" THEN "timer" ELSE "loading"]
    /\ timers' = (IF rKind = "merged" THEN Append(timers, nRuns + 1) ELSE timers)
    /\ bpc' = [bpc EXCEPT ![nRuns + 1] = IF rKind = "volumetric" /\ back THEN "loading" ELSE "none"]
    /\ backGeo' = (IF rKind = "volumetric" /\ ~back THEN 0 ELSE backGeo)
    /\ UNCHANGED <<geoVars, loadVars, appVars, rKind, active, rows, rowCount, geometry, texture,
                   progress, reports, isGenerating,
                   lastReport, propScale, meshScaleZ>>

\* The oldest pending timer fires: createMergedGeometry(...) is called
\* (merged), or createMeshFromData runs and setGeometry(geo) (sync).
TimerFires ==
    /\ rKind \in {"merged", "sync"}
    /\ timers # << >>
    /\ timers' = Tail(timers)
    /\ LET r == Head(timers)
       IN  IF rKind = "merged"
           THEN /\ rpc' = [rpc EXCEPT ![r] = "loading"]
                /\ UNCHANGED geometry
           ELSE /\ rpc' = [rpc EXCEPT ![r] = "done"]
                /\ geometry' = r
    /\ UNCHANGED <<geoVars, loadVars, appVars, rKind, nRuns, active, bpc, rows, rowCount, runBack,
                   backGeo, texture, progress, reports, isGenerating,
                   lastReport, propScale, runScale, meshScaleZ>>

\* .then(setGeometry) / .then(setFrontGeo): the call of run r resolves.
Settle(r) ==
    /\ rKind \in {"merged", "volumetric"}
    /\ rpc[r] = "loading"
    /\ rpc' = [rpc EXCEPT ![r] = "done"]
    /\ geometry' = r
    /\ UNCHANGED <<geoVars, loadVars, appVars, rKind, nRuns, active, bpc, rows, rowCount, runBack,
                   timers, backGeo, texture, progress, reports, isGenerating,
                   lastReport, propScale, runScale, meshScaleZ>>

\* .then(setBackGeo): the back-side call of run r resolves.
SettleBack(r) ==
    /\ rKind = "volumetric"
    /\ bpc[r] = "loading"
    /\ bpc' = [bpc EXCEPT ![r] = "done"]
    /\ backGeo' = r
    /\ UNCHANGED <<geoVars, loadVars, appVars, rKind, nRuns, active, rpc, rows, rowCount, runBack,
                   timers, geometry, texture, progress, reports, isGenerating,
                   lastReport, propScale, runScale, meshScaleZ>>

\* A call of run r ends without a geometry (.catch, or no settlement at all).
Fail(r) ==
    /\ rKind \in {"merged", "volumetric", "sync"}
    /\ rpc[r] = "loading"
    /\ rpc' = [rpc EXCEPT ![r] = "failed"]
    /\ UNCHANGED <<geoVars, loadVars, appVars, rKind, nRuns, active, bpc, rows, rowCount, runBack,
                   timers, geometry, backGeo, texture, progress, reports, isGenerating,
                   lastReport, propScale, runScale, meshScaleZ>>

FailBack(r) ==
    /\ rKind = "volumetric"
    /\ bpc[r] = "loading"
    /\ bpc' = [bpc EXCEPT ![r] = "failed"]
    /\ UNCHANGED <<geoVars, loadVars, appVars, rKind, nRuns, active, rpc, rows, rowCount, runBack,
                   timers, geometry, backGeo, texture, progress, reports, isGenerating,
                   lastReport, propScale, runScale, meshScaleZ>>

\* part_002 GeneratedMesh: the loads of run r are done; setTexture(tex) and
\* a 10 ms timer for the geometry.
LoadImages(r) ==
    /\ rKind = "sync"
    /\ rpc[r] = "loading"
    /\ rpc' = [rpc EXCEPT ![r] = "timer"]
    /\ texture' = r
    /\ timers' = Append(timers, r)
    /\ UNCHANGED <<geoVars, loadVars, appVars, rKind, nRuns, active, bpc, rows, rowCount, runBack,
                   geometry, backGeo, progress, reports, isGenerating,
                   lastReport, propScale, runScale, meshScaleZ>>

NextRenderer ==
    \/ \E back \in BOOLEAN : StartRequest(back)
    \/ TimerFires
    \/ \E r \in Runs : Settle(r)
    \/ \E r \in Runs : SettleBack(r)
    \/ \E r \in Runs : Fail(r)
    \/ \E r \in Runs : FailBack(r)
    \/ \E r \in Runs : LoadImages(r)

SpecRenderer == InitRenderer /\ [][NextRenderer]_vars

(***************************************************************************)
(* A change of settings.displacementScale while a renderer is mounted.     *)
(***************************************************************************)
PropScales == {10, 20}
LifecycleRows == {r \in RowCounts : CHUNK_SIZE < r /\ r <= 2 * CHUNK_SIZE}

\* The dependency list of the geometry effect names settings.displacementScale
\* in Viewer3D.tsx ModelRenderer and part_002 ModelRenderer; the two
\* GeneratedMesh components list [originalImage, depthMap] only.
ScaleIsDependency == rKind \in {"merged", "volumetric"}

\* originalImage and depthMap are set (if (!originalImage || !depthMap) return):
\* an effect run has started a generation for them.
HasImages == nRuns > 0

\* The mesh is rendered: if (!geometry || !texture) return null.
MeshMounted == geometry # 0 /\ texture # 0

\* The props arrive with displacementScale s.  Where the scale is a
\* dependency and the images are set, the geometry effect runs again and
\* starts a request that captures s.  Otherwise no generation starts; part_003 GeneratedMesh sets
\* meshRef.current.scale.z on the mounted mesh, part_002 GeneratedMesh does
\* nothing (scale={[1, 1, 1]}).
SetDisplacement(s, back) ==
    /\ rKind # "none"
    /\ s # propScale
    /\ propScale' = s
    /\ IF ScaleIsDependency /\ HasImages
       THEN /\ nRuns < MaxRuns
            /\ nRuns' = nRuns + 1
            /\ runBack' = [runBack EXCEPT ![nRuns + 1] = back]
            /\ runScale' = [runScale EXCEPT ![nRuns + 1] = s]
            /\ rpc' = [rpc EXCEPT ![nRuns + 1] = IF rKind = "merged" THEN "timer" ELSE "loading"]
            /\ timers' = (IF rKind = "merged" THEN Append(timers, nRuns + 1) ELSE timers)
            /\ bpc' = [bpc EXCEPT ![nRuns + 1] = IF rKind = "volumetric" /\ back THEN "loading" ELSE "none"]
            /\ backGeo' = (IF rKind = "volumetric" /\ ~back THEN 0 ELSE backGeo)
            /\ UNCHANGED meshScaleZ
       ELSE /\ ~back
            /\ meshScaleZ' = (IF rKind = "progressive" /\ MeshMounted THEN s ELSE meshScaleZ)
            /\ UNCHANGED <<nRuns, runBack, runScale, rpc, timers, bpc, backGeo>>
    /\ UNCHANGED <<geoVars, loadVars, appVars, rKind, active, rows, rowCount, geometry, texture,
                   progress, reports, lastReport, isGenerating>>

InitLifecycle ==
    /\ rKind \in {"progressive", "merged", "volumetric", "sync"}
    /\ FreshRenderer
    /\ NoApp
    /\ NoGeometryCall

NextLifecycle ==
    \/ \E s \in PropScales : \E back \in BOOLEAN : SetDisplacement(s, back)
    \/ \E hh \in LifecycleRows : StartGenerate(hh)
    \/ \E r \in Runs : LoadsResolve(r)
    \/ \E r \in Runs : FrameTick(r)
    \/ \E r \in Runs : Continue(r)
    \/ \E back \in BOOLEAN : StartRequest(back)
    \/ TimerFires
    \/ \E r \in Runs : Settle(r)
    \/ \E r \in Runs : SettleBack(r)
    \/ \E r \in Runs : LoadImages(r)

SpecLifecycle == InitLifecycle /\ [][NextLifecycle]_vars

(***************************************************************************)
(* The two-view App component (App.tsx:19-250) and the two services it     *)
(* calls (services/gemini.ts:64-116).                                      *)
(***************************************************************************)
MaxForges == 2

\* The files the user chooses, in this order; every file is another image.
Files == {1, 2}

\* The image of the i-th chosen file.
FrontImage(i) == [src |-> i, view |-> "front"]

\* The image the model draws as the back view of img.
BackViewOf(img) == [src |-> img.src, view |-> "back"]

DepthMapOf(img) == [of |-> img]

\* What ai.models.generateContent does: it answers with image data, answers
\* without image data, or throws (network, quota, refusal).
Responses == {"data", "nodata", "throws"}

\* What is kept of an answer: whether it carried image data.
Answer(resp) == IF resp = "data" THEN "data" ELSE "failed"

Returned(v) == [ok |-> TRUE, val |-> v]
Thrown == [ok |-> FALSE, val |-> NullImage]

\* The try block of both services: resizeImage always resolves, the request
\* is awaited, the data of the first part is returned, and its absence is
\* thrown as an Error.
TryGenerate(resp, v) ==
    IF resp = "throws" THEN Thrown
    ELSE IF resp = "data" THEN Returned(v)
    ELSE Thrown

\* generateDepthMap: the catch block logs and throws the error again.
generateDepthMap(imageBase64, resp) ==
    LET r == TryGenerate(resp, DepthMapOf(imageBase64))
    IN  IF r.ok THEN r ELSE Thrown

\* A generateBackView whose catch block throws the error again.
generateBackViewRethrows(frontImageBase64, resp) ==
    LET r == TryGenerate(resp, BackViewOf(frontImageBase64))
    IN  IF r.ok THEN r ELSE Thrown

\* generateBackView: the catch block returns the front image.
generateBackView(frontImageBase64, resp) ==
    LET r == TryGenerate(resp, BackViewOf(frontImageBase64))
    IN  IF r.ok THEN r ELSE Returned(frontImageBase64)

\* A call of processImage: the originalImage its closure holds, its two
\* promises, the outcome of its await Promise.all, the image handed to the
\* second generateDepthMap, and what the three requests answered.
NewTask(img) ==
    [img |-> img, depthTask |-> "pending", backViewTask |-> "view",
     ended |-> "pending", res |-> NullImage,
     depthResp |-> "none", viewResp |-> "none", backResp |-> "none"]

\* await Promise.all([depthTask, backViewTask]): it rejects with the first
\* rejection, fulfils when both are fulfilled, and settles once. The code
\* after it (or the catch block) runs in the same turn as the settling
\* callback.
Ended(t) ==
    IF t.ended # "pending" THEN t.ended
    ELSE IF t.depthTask = "rejected" \/ t.backViewTask = "rejected" THEN "error"
    ELSE IF t.depthTask = "fulfilled" /\ t.backViewTask = "fulfilled" THEN "success"
    ELSE "pending"

\* The end of processImage after a callback of task r left t, the status st
\* and the progress p: setStatus success and setProgress(100), or setStatus
\* error, when Promise.all has just settled.
AfterCallback(r, t, st, p) ==
    LET e == Ended(t)
        justEnded == tasks[r].ended = "pending" /\ e # "pending"
    IN  /\ tasks' = [tasks EXCEPT ![r] = [t EXCEPT !.ended = e]]
        /\ status' = IF justEnded THEN e ELSE st
        /\ appProgress' = IF justEnded /\ e = "success" THEN 100 ELSE p

\* handleImageUpload: the file input exists only while originalImage is
\* null; a FileReader is started for the chosen file. The user chooses the
\* next file when the one before has been read.
handleImageUpload ==
    /\ originalImage = NullImage
    /\ readers = {}
    /\ uploads + 1 \in Files
    /\ uploads' = uploads + 1
    /\ readers' = readers \cup {uploads + 1}
    /\ UNCHANGED <<originalImage, backImage, frontDepthMap, backDepthMap, status,
                   appProgress, tasks>>
    /\ UNCHANGED <<geoVars, loadVars, rendVars>>

\* reader.onload of the file i.
ReaderLoads(i) ==
    /\ i \in readers
    /\ readers' = readers \ {i}
    /\ originalImage' = FrontImage(i)
    /\ backImage' = NullImage
    /\ frontDepthMap' = NullDepth
    /\ backDepthMap' = NullDepth
    /\ status' = "idle"
    /\ appProgress' = 0
    /\ UNCHANGED <<uploads, tasks>>
    /\ UNCHANGED <<geoVars, loadVars, rendVars>>

\* The button over the source image: everything is set to null and the
\* status to idle; setProgress is not called.
ResetClick ==
    /\ originalImage # NullImage
    /\ originalImage' = NullImage
    /\ backImage' = NullImage
    /\ frontDepthMap' = NullDepth
    /\ backDepthMap' = NullDepth
    /\ status' = "idle"
    /\ UNCHANGED <<appProgress, uploads, readers, tasks>>
    /\ UNCHANGED <<geoVars, loadVars, rendVars>>

\* A click on the forge button, which is rendered with the source image and
\* disabled unless the status is idle, success or error: processImage up to
\* its await.
processImage ==
    /\ originalImage # NullImage
    /\ status \in {"idle", "success", "error"}
    /\ Len(tasks) < MaxForges
    /\ status' = "scanning_front"
    /\ appProgress' = 5
    /\ tasks' = Append(tasks, NewTask(originalImage))
    /\ UNCHANGED <<originalImage, backImage, frontDepthMap, backDepthMap, uploads,
                   readers>>
    /\ UNCHANGED <<geoVars, loadVars, rendVars>>

\* generateDepthMap(originalImage) of task r settles: the then-callback of
\* depthTask, or its rejection.
FrontDepthSettles(r, resp) ==
    /\ r \in DOMAIN tasks
    /\ tasks[r].depthTask = "pending"
    /\ LET out == generateDepthMap(tasks[r].img, resp)
           t == [tasks[r] EXCEPT !.depthResp = Answer(resp),
                                 !.depthTask = IF out.ok THEN "fulfilled" ELSE "rejected"]
       IN  IF out.ok
           THEN /\ frontDepthMap' = out.val
                /\ AfterCallback(r, t, status, Min(appProgress + 40, 90))
           ELSE /\ UNCHANGED frontDepthMap
                /\ AfterCallback(r, t, status, appProgress)
    /\ UNCHANGED <<originalImage, backImage, backDepthMap, uploads, readers>>
    /\ UNCHANGED <<geoVars, loadVars, rendVars>>

\* generateBackView(originalImage) of task r settles: the then-callback of
\* backViewTask up to its await, or the rejection of backViewTask.
BackViewSettles(r, resp) ==
    /\ r \in DOMAIN tasks
    /\ tasks[r].backViewTask = "view"
    /\ LET out == generateBackView(tasks[r].img, resp)
       IN  IF out.ok
           THEN /\ backImage' = out.val
                /\ AfterCallback(r, [tasks[r] EXCEPT !.viewResp = Answer(resp),
                                                     !.backViewTask = "depth",
                                                     !.res = out.val],
                                 "calculating_volume", Min(appProgress + 20, 90))
           ELSE /\ UNCHANGED backImage
                /\ AfterCallback(r, [tasks[r] EXCEPT !.viewResp = Answer(resp),
                                                     !.backViewTask = "rejected"],
                                 status, appProgress)
    /\ UNCHANGED <<originalImage, frontDepthMap, backDepthMap, uploads, readers>>
    /\ UNCHANGED <<geoVars, loadVars, rendVars>>

\* generateDepthMap(res) of task r settles: the rest of the then-callback of
\* backViewTask, or its rejection.
BackDepthSettles(r, resp) ==
    /\ r \in DOMAIN tasks
    /\ tasks[r].backViewTask = "depth"
    /\ LET out == generateDepthMap(tasks[r].res, resp)
           t == [tasks[r] EXCEPT !.backResp = Answer(resp),
                                 !.backViewTask = IF out.ok THEN "fulfilled" ELSE "rejected"]
       IN  IF out.ok
           THEN /\ backDepthMap' = out.val
                /\ AfterCallback(r, t, status, Min(appProgress + 30, 95))
           ELSE /\ UNCHANGED backDepthMap
                /\ AfterCallback(r, t, status, appProgress)
    /\ UNCHANGED <<originalImage, backImage, frontDepthMap, uploads, readers>>
    /\ UNCHANGED <<geoVars, loadVars, rendVars>>

Forges == 1 .. MaxForges

\* No geometry generator, image decoding or renderer is part of the
\* behaviour of the App component.
InitApp ==
    /\ FreshApp
    /\ NoGeometryCall
    /\ NoRenderer

NextApp ==
    \/ handleImageUpload
    \/ \E i \in Files : ReaderLoads(i)
    \/ ResetClick
    \/ processImage
    \/ \E r \in Forges : \E resp \in Responses : FrontDepthSettles(r, resp)
    \/ \E r \in Forges : \E resp \in Responses : BackViewSettles(r, resp)
    \/ \E r \in Forges : \E resp \in Responses : BackDepthSettles(r, resp)

SpecApp == InitApp /\ [][NextApp]_vars

(***************************************************************************)
(* Vocabulary of the geometry claims.                                      *)
(***************************************************************************)
Resolved == pc = "resolved"
Cells == 0 .. (w * h - 1)
VertexIds == 0 .. (Len(vertices) - 1)
\* The alpha and depth the generator reads for cell k.
FrontAlphaAt(k) == fAlpha[PixelIndex(CellX(k), CellY(k))]
FrontDepthAt(k) == fDepth[PixelIndex(CellX(k), CellY(k))]
BackAlphaAt(k) == bAlpha[PixelIndex(CellX(k), CellY(k))]
\* The vertices synthesized from cell k on one side.
VerticesOf(k, back) ==
    {i \in VertexIds : /\ vertices[i + 1].x = CellX(k)
                       /\ vertices[i + 1].y = CellY(k)
                       /\ vertices[i + 1].back = back}
\* The side a single-sided generator works on.
Side == IF variant = "volumetric" THEN isBack ELSE FALSE
TriangleIds == 1 .. Len(indices)
Corner(t) == {t[1], t[2], t[3]}
FrontTriangles == {n \in TriangleIds : \A i \in Corner(indices[n]) :
                        i \in VertexIds /\ ~vertices[i + 1].back}
BackTriangles == {n \in TriangleIds : \A i \in Corner(indices[n]) :
                        i \in VertexIds /\ vertices[i + 1].back}
FullyOpaque == \A k \in Cells : FrontAlphaAt(k) = 255
FullyTransparent ==
    /\ \A k \in Cells : FrontAlphaAt(k) = 0
    /\ HasBackData => \A k \in Cells : BackAlphaAt(k) = 0

(***************************************************************************)
(* C3.  After a generation pass every value of the index array is a vertex *)
(* index in 0 .. vertexCount-1; none is the -1 sentinel.                   *)
(***************************************************************************)
C3_IndicesInRange ==
    Resolved => \A n \in TriangleIds : \A j \in 1 .. 3 :
                    indices[n][j] \in VertexIds

\* A pass that emitted triangles although some cell of the grid has no vertex.
C3_Witness ==
    /\ Resolved
    /\ Len(indices) > 0
    /\ \E k \in Cells : gridFront[k] = Sentinel
    /\ \E k \in Cells : VerticesOf(k, Side) = {}

(***************************************************************************)
(* C4.  A grid cell whose alpha is below the visibility threshold never    *)
(* receives a vertex: after synthesis its VertexIndexGrid entry is still   *)
(* the -1 sentinel and no position, UV or colour was appended for it       *)
(* (front and back sides alike).                                           *)
(***************************************************************************)
ThresholdOf(v) ==
    IF v = "merged" THEN MergedAlphaThreshold ELSE VolumetricAlphaThreshold

C4_BelowThresholdNoVertex ==
    Resolved =>
        /\ \A k \in Cells :
              FrontAlphaAt(k) < ThresholdOf(variant) =>
                  /\ gridFront[k] = Sentinel
                  /\ VerticesOf(k, Side) = {}
        /\ HasBackData =>
              \A k \in Cells :
                  BackAlphaAt(k) < ThresholdOf(variant) =>
                      /\ gridBack[k] = Sentinel
                      /\ VerticesOf(k, TRUE) = {}

(***************************************************************************)
(* C6.  createMergedGeometry returns a buffer that is front-only or fully  *)
(* two-sided: back-side vertices and back-side triangles exist only when   *)
(* both back rasters were supplied, and a back pair with only one member   *)
(* yields exactly the front-only geometry.                                 *)
(***************************************************************************)
VisibleFront == {k \in Cells : FrontAlphaAt(k) > MergedAlphaThreshold}
VisibleBack == {k \in Cells : BackAlphaAt(k) > MergedAlphaThreshold}
BackVertices == {i \in VertexIds : vertices[i + 1].back}

C6_BackOnlyWhenBothSupplied ==
    (variant = "merged" /\ Resolved) =>
        /\ (BackVertices # {} \/ BackTriangles # {}) => (hasBackImg /\ hasBackDepth)
        /\ ~(hasBackImg /\ hasBackDepth) =>
              \* exactly the front-only geometry: one vertex per visible front
              \* cell, in row-major order, and front triangles only
              /\ Len(vertices) = Cardinality(VisibleFront)
              /\ \A i \in VertexIds : \A j \in VertexIds :
                    i < j => vertices[i + 1].y * w + vertices[i + 1].x
                                < vertices[j + 1].y * w + vertices[j + 1].x
              /\ \A k \in Cells : gridBack[k] = Sentinel
              /\ FrontTriangles = TriangleIds
        /\ (hasBackImg /\ hasBackDepth) =>
              /\ Cardinality(BackVertices) = Cardinality(VisibleBack)
              /\ Len(vertices) = Cardinality(VisibleFront) + Cardinality(VisibleBack)

\* A call given only one member of the back pair that produced front vertices.
C6_Witness ==
    /\ variant = "merged"
    /\ Resolved
    /\ hasBackImg # hasBackDepth
    /\ Len(vertices) > 0

(***************************************************************************)
(* C7.  For a fully opaque colour raster and any depth raster, one side's  *)
(* generation yields exactly W x H vertices and 2 x (W-1) x (H-1)          *)
(* triangles.  Stated for the front side of createMergedGeometry, one of   *)
(* the generators the property is claimed of.                              *)
(***************************************************************************)
FrontVertices == {i \in VertexIds : ~vertices[i + 1].back}

C7_OpaqueFullMesh ==
    (variant = "merged" /\ Resolved /\ FullyOpaque) =>
        /\ Cardinality(FrontVertices) = w * h
        /\ Cardinality(FrontTriangles) = 2 * (w - 1) * (h - 1)

CarvedCells == {k \in Cells : FrontAlphaAt(k) = 0}
CornerCarved ==
    /\ \A k \in Cells : FrontAlphaAt(k) \in {0, 255}
    /\ CarvedCells # {}
    /\ CarvedCells # Cells
    /\ \E corner \in Corners : \E bw \in 1 .. w : \E bh \in 1 .. h :
          CarvedCells = {k \in Cells : InBlock(CellX(k), CellY(k), w, h, corner, bw, bh)}

C9_CarvedBlockHasNoGeometry ==
    (variant \in {"merged", "volumetric"} /\ Resolved /\ CornerCarved) =>
        /\ \A k \in CarvedCells : gridFront[k] = Sentinel
        /\ \A k \in CarvedCells : VerticesOf(k, Side) = {}
        /\ \A n \in FrontTriangles \cup (IF variant = "volumetric" THEN TriangleIds ELSE {}) :
              \A i \in Corner(indices[n]) :
                  \A k \in CarvedCells : i \notin VerticesOf(k, Side)

(***************************************************************************)
(* C10.  Winding is consistent per side and reversed between sides: with   *)
(* the orientation of a triangle taken as the sign of its vertex order     *)
(* over grid coordinates, all front-side triangles have one orientation    *)
(* and all back-side triangles the opposite one.                           *)
(***************************************************************************)
\* Twice the signed area of triangle t over the grid coordinates of its
\* vertices.
Orientation(t) ==
    LET p == vertices[t[1] + 1]
        q == vertices[t[2] + 1]
        r == vertices[t[3] + 1]
    IN  (q.x - p.x) * (r.y - p.y) - (q.y - p.y) * (r.x - p.x)

C10_WindingConsistentPerSide ==
    (variant = "merged" /\ Resolved) =>
        \E sgn \in {-1, 1} :
            /\ \A n \in FrontTriangles : Orientation(indices[n]) * sgn > 0
            /\ \A n \in BackTriangles : Orientation(indices[n]) * sgn < 0

(***************************************************************************)
(* C5.  If any requested source image fails to decode, the generation call *)
(* fails to its caller: its promise is rejected, it never resolves with a  *)
(* geometry and it never stays pending forever.                            *)
(***************************************************************************)
SomeImageFailed == \E i \in DOMAIN images : images[i] = "error"
AllImagesSettled == \A i \in DOMAIN images : images[i] # "loading"

\* Once every image event has fired, a call with a failed image is rejected;
\* and it is never resolved.
C5_DecodeFailureRejects ==
    SomeImageFailed =>
        /\ pc # "resolved"
        /\ AllImagesSettled => pc = "rejected"

(***************************************************************************)
(* C1.  In the progressive variant nothing produced by a superseded run is *)
(* committed after its cleanup has run: no step sets the geometry or the   *)
(* texture to the result of a run whose active flag is false, and no step  *)
(* calls the onProgress prop on behalf of such a run.                      *)
(***************************************************************************)
CommitsBy(r) ==
    \/ geometry' = r /\ geometry # r
    \/ texture' = r /\ texture # r
    \/ reports'[r] # reports[r]

C1_SupersededNeverCommits ==
    [][\A r \in Runs : ~active[r] => ~CommitsBy(r)]_vars

\* Number of processChunk calls a run over hh rows needs.
TicksOf(hh) == IF hh = 0 THEN 1 ELSE (hh + CHUNK_SIZE - 1) \div CHUNK_SIZE

\* A run was superseded mid-progress (it had reported, but not every chunk),
\* went on to synthesize all of its rows and ran its continuation, and its
\* geometry is not held.
C1_Witness ==
    \E r \in Runs :
        /\ rKind = "progressive"
        /\ ~active[r]
        /\ rpc[r] = "done"
        /\ rows[r] = rowCount[r]
        /\ reports[r] > 0
        /\ reports[r] < TicksOf(rowCount[r])
        /\ texture = r
        /\ geometry # r

(***************************************************************************)
(* C2.  In the renderers without a progressive generator the last request  *)
(* started wins: once no call is in flight and the last request has        *)
(* delivered, the geometry held is the one of the last request, and the    *)
(* back geometry is the last request's or none when it has no back pair.   *)
(***************************************************************************)
Quiescent ==
    /\ timers = << >>
    /\ \A r \in Runs : rpc[r] \in {"none", "done", "failed"}
    /\ \A r \in Runs : bpc[r] \in {"none", "done", "failed"}

C2_LastRequestWins ==
    (/\ rKind \in {"merged", "volumetric", "sync"}
     /\ nRuns > 0
     /\ Quiescent
     /\ rpc[nRuns] = "done"
     /\ bpc[nRuns] # "failed")
    => /\ geometry = nRuns
       /\ rKind = "volumetric" => backGeo = (IF runBack[nRuns] THEN nRuns ELSE 0)

(***************************************************************************)
(* C20.  In the progressive variant triangulation starts only after every  *)
(* grid row 0 .. h-1 has been synthesized: while the row cursor y is below *)
(* h no triangle index has been emitted and no index array is set.         *)
(***************************************************************************)
C20_NoTriangleBeforeLastRow ==
    (variant = "async" /\ y < h) => (indices = << >> /\ ~hasIndex)

\* Between two ticks, with a complete block among the rows synthesized so far.
C20_Witness ==
    /\ variant = "async"
    /\ pc = "chunk"
    /\ y < h
    /\ \E x \in 0 .. (w - 2) : \E yy \in 0 .. (y - 2) : Complete(Block(gridFront, x, yy))

(***************************************************************************)
(* C17.  Every synthesized vertex has u and v in [0,1], for every raster   *)
(* and every grid the builder can produce, including a grid one cell wide  *)
(* or one cell high.                                                       *)
(***************************************************************************)
InUnitRange(p) == ~RatIsNaN(p) /\ 0 <= p[1] /\ p[1] <= p[2]

C17_UVInUnitRange ==
    Resolved =>
        \A i \in VertexIds :
            InUnitRange(UOf(vertices[i + 1])) /\ InUnitRange(VOf(vertices[i + 1]))

(***************************************************************************)
(* C18.  As stated: in a merged front+back buffer the front-side vertices  *)
(* occupy the indices 0 .. F-1 and the back-side vertices F .. F+B-1,      *)
(* where F is the front-side vertex count.                                 *)
(***************************************************************************)
C18_BackOffsetByFrontCount ==
    (variant = "merged" /\ Resolved /\ HasBackData) =>
        \A i \in VertexIds :
            vertices[i + 1].back <=> i >= Cardinality(FrontVertices)

(***************************************************************************)
(* C18, amended.  In a merged front+back buffer the vertices of both sides *)
(* share one dense index space in row-major cell order, the front vertex   *)
(* of a cell immediately before its back vertex; the three indices of      *)
(* every triangle are vertices of one side, and the front-side triangles   *)
(* precede the back-side triangles in the index array.                     *)
(***************************************************************************)
\* Position of a vertex in the synthesis order of createMergedGeometry.
SynthesisRank(vtx) == 2 * (vtx.y * w + vtx.x) + (IF vtx.back THEN 1 ELSE 0)

C18_SharedIndexSpace ==
    (variant = "merged" /\ Resolved /\ HasBackData) =>
        /\ \A i \in VertexIds : \A j \in VertexIds :
              i < j => SynthesisRank(vertices[i + 1]) < SynthesisRank(vertices[j + 1])
        /\ TriangleIds = FrontTriangles \cup BackTriangles
        /\ \A n \in FrontTriangles : \A m \in BackTriangles : n < m

\* A two-sided buffer with triangles on both sides in which a back vertex has
\* an index below the front-side vertex count.
C18_Witness ==
    /\ variant = "merged"
    /\ Resolved
    /\ HasBackData
    /\ FrontTriangles # {}
    /\ BackTriangles # {}
    /\ \E i \in BackVertices : i < Cardinality(FrontVertices)

(***************************************************************************)
(* C14.  In cylindrical mode, of two cells with the same raw depth d > 0   *)
(* and the same alpha, one at the UV boundary and one at the UV centre,    *)
(* the boundary cell has the strictly smaller radial displacement (radius  *)
(* minus base radius).                                                     *)
(***************************************************************************)
\* u or v is 0 or 1.
AtBoundary(vtx) == vtx.x \in {0, w - 1} \/ vtx.y \in {0, h - 1}
\* u and v are within half a cell of 0.5.
AtCentre(vtx) == Abs(2 * vtx.x - (w - 1)) <= 1 /\ Abs(2 * vtx.y - (h - 1)) <= 1
\* r - radiusBase * 0.5
RadialDisplacementFX(vtx) == RadiusFX(fDepth[PixelIndex(vtx.x, vtx.y)]) - (FX \div 4)

C14_BoundaryDisplacementSmaller ==
    (variant = "volumetric" /\ Resolved /\ w > 2 /\ h > 2) =>
        \A i \in VertexIds : \A j \in VertexIds :
            LET e == vertices[i + 1]
                c == vertices[j + 1]
            IN  (/\ AtBoundary(e)
                 /\ AtCentre(c)
                 /\ fDepth[PixelIndex(e.x, e.y)] > 0
                 /\ fDepth[PixelIndex(e.x, e.y)] = fDepth[PixelIndex(c.x, c.y)]
                 /\ fAlpha[PixelIndex(e.x, e.y)] = fAlpha[PixelIndex(c.x, c.y)])
                => RadialDisplacementFX(e) < RadialDisplacementFX(c)

(***************************************************************************)
(* Claims about two calls of a generator and about the displaced axis.     *)
(***************************************************************************)
Planar == {"merged", "sync", "async"}
SecondResolved == prev.called /\ pc = "resolved"
SameArguments ==
    prev.displacementScale = displacementScale /\ prev.model = model

\* C16: in Point-E mode the geometry handed to the point renderer carries no
\* triangle index array (the triangulation phase is skipped).
C16_PointCloudHasNoIndex ==
    (Resolved /\ model = "Point-E" /\ variant \in {"merged", "volumetric"})
        => (~hasIndex /\ indices = << >>)

C12_DisplacementMonotone ==
    (SecondResolved /\ variant \in Planar /\ prev.model = model
        /\ prev.displacementScale < displacementScale)
        => /\ vertices = prev.vertices
           /\ gridFront = prev.gridFront
           /\ gridBack = prev.gridBack
           /\ indices = prev.indices
           /\ \A i \in DOMAIN vertices :
                 LET z1 == PlanarZ(vertices[i], prev.displacementScale, model)
                     z2 == PlanarZ(vertices[i], displacementScale, model)
                 IN  IF DepthOf(vertices[i]) = 0
                     THEN Abs(z2[1]) = Abs(z1[1])
                     ELSE Abs(z2[1]) > Abs(z1[1])

\* C13: a fully opaque 4 x 4 grid whose depth rises linearly from 0 at the
\* left column to 255 at the right one, at displacementScale 1.0, gives 16
\* vertices, 18 triangles and a largest front z of exactly 1.0, reached by
\* the rightmost column.
Scenario ==
    /\ variant \in Planar
    /\ w = Len(ScenarioDepthRow)
    /\ h = Len(ScenarioDepthRow)
    /\ ~HasBackData
    /\ displacementScale = 10
    /\ \A k \in Cells : /\ FrontAlphaAt(k) = 255
                         /\ FrontDepthAt(k) = ScenarioDepthRow[CellX(k) + 1]
C13_ScenarioCounts ==
    (Resolved /\ Scenario)
        => /\ Len(vertices) = 16
           /\ Len(indices) = 3 * 18
           /\ \A i \in DOMAIN vertices :
                 LET z == PlanarZ(vertices[i], displacementScale, model)
                 IN  /\ z[1] <= z[2]
                     /\ (vertices[i].x = w - 1) => z[1] = z[2]

(***************************************************************************)
(* Claims about the values the progressive variant reports.                *)
(***************************************************************************)
\* Run r has called the onProgress prop at least once.
HasReported(r) == rKind = "progressive" /\ reports[r] > 0

\* C15 (as stated): every value reported to the progress observer equals
\* processedRows / totalRows for the rows synthesized so far and lies in
\* [0, 1].
C15_ProgressIsFraction ==
    \A r \in Runs :
        HasReported(r) =>
            LET v == lastReport[r].value
            IN  /\ ~RatIsNaN(v)
                /\ v[1] * rowCount[r] = lastReport[r].rows * v[2]
                /\ 0 <= v[1]
                /\ v[1] <= v[2]

\* The value v is the whole number nearest to 100 * done / total.
NearestPercent(v, done, total) ==
    /\ v[2] = 1
    /\ v[1] \in 0 .. 100
    /\ 2 * Abs(v[1] * total - 100 * done) <= total

\* C15 (amended): every value reported is the whole percentage
\* Math.round(100 * processedRows / totalRows), a number in 0 .. 100, and NaN
\* when totalRows is 0; within one run the values never decrease, and the
\* value reported together with the last row is 100.
C15_ProgressIsPercent ==
    [][\A r \in Runs :
          HasReported(r)' =>
              LET v == lastReport'[r].value
                  done == lastReport'[r].rows
              IN  /\ IF rowCount'[r] = 0
                     THEN RatIsNaN(v)
                     ELSE /\ NearestPercent(v, done, rowCount'[r])
                          /\ done = rowCount'[r] => v[1] = 100
                  /\ (HasReported(r) /\ reports'[r] > reports[r])
                         => v[1] >= lastReport[r].value[1]]_vars

\* A run over more rows than one chunk has reported more than once, the
\* last time with its last row.
C15_Witness ==
    \E r \in Runs :
        /\ HasReported(r)
        /\ reports[r] > 1
        /\ rowCount[r] > CHUNK_SIZE
        /\ lastReport[r].rows = rowCount[r]
        /\ progress = <<100, 1>>

(***************************************************************************)
(* Claims about the lifecycle of the geometry buffer.                      *)
(***************************************************************************)
\* C11: after any change of displacementScale a full generation pass is
\* started from the new combination: when a geometry is held, the step that
\* changes the scale starts a run that captures the new value.
C11_ScaleChangeStartsPass ==
    [][(propScale' # propScale /\ geometry # 0) =>
          (nRuns' = nRuns + 1 /\ runScale'[nRuns'] = propScale')]_vars

(***************************************************************************)
(* Claims about superseded runs and what the progressive renderer shows.   *)
(***************************************************************************)
\* Run r has been superseded: its effect's cleanup has run.
Superseded(r) == r <= nRuns /\ ~active[r]

\* C22: once a progressive run has been superseded no further row chunk of
\* it is executed and it performs no triangulation (its generator never
\* reaches the resolving branch).
C22_SupersededRunAbandoned ==
    [][\A r \in Runs :
          (rKind = "progressive" /\ Superseded(r))
              => /\ rows'[r] = rows[r]
                 /\ rpc'[r] = "geoResolved" => rpc[r] = "geoResolved"]_vars

\* const height = img.height of the originalImage a run loaded: two runs
\* with different row counts have different source images.
SourceRows(r) == rowCount[r]

EntriesOf(g) == {g[k] : k \in DOMAIN g} \ {Sentinel}
\* No two slots of the grid hold the same vertex index.
Injective(g) ==
    \A k1, k2 \in DOMAIN g : (g[k1] # Sentinel /\ g[k1] = g[k2]) => k1 = k2

\* C27: after synthesis the non-sentinel entries of the front grid and the
\* back grid together are pairwise distinct and are exactly
\* 0 .. vertexCount - 1, and no triangle mixes a front-side vertex with a
\* back-side vertex.
C27_GridIndicesDenseUnique ==
    Resolved
        => /\ Injective(gridFront)
           /\ Injective(gridBack)
           /\ EntriesOf(gridFront) \cap EntriesOf(gridBack) = {}
           /\ EntriesOf(gridFront) \cup EntriesOf(gridBack) = VertexIds
           /\ \A i \in DOMAIN indices :
                 \A m, n \in 1 .. 3 :
                     vertices[indices[i][m] + 1].back = vertices[indices[i][n] + 1].back

\* The blocks the face loops visit, by their top-left cell, and the grid
\* entries at the four cells of a block.
Blocks == {b \in (0 .. (w - 2)) \X (0 .. (h - 2)) : TRUE}
BlockEntries(b) ==
    {gridFront[b[2] * w + b[1]], gridFront[b[2] * w + (b[1] + 1)],
     gridFront[(b[2] + 1) * w + b[1]], gridFront[(b[2] + 1) * w + (b[1] + 1)]}
CompleteBlocks == {b \in Blocks : Sentinel \notin BlockEntries(b)}
\* The triangles among ft whose corners all belong to block b.
TrianglesIn(b, ft) == {n \in ft : Corner(indices[n]) \subseteq BlockEntries(b)}

\* C23: in the triangulators without a distance filter every block whose
\* four cells hold a vertex index emits exactly two triangles, which cover
\* its four vertices, every other block emits nothing, and no block is
\* visited twice.
C23_TwoTrianglesPerCompleteBlock ==
    (Resolved /\ variant \in Planar)
        => LET ft == FrontTriangles
               cb == CompleteBlocks
           IN  /\ Cardinality(ft) = 2 * Cardinality(cb)
               /\ \A b \in cb :
                     LET tb == TrianglesIn(b, ft)
                     IN  /\ Cardinality(tb) = 2
                         /\ UNION {Corner(indices[n]) : n \in tb} = BlockEntries(b)
C23_Witness ==
    /\ Resolved
    /\ variant \in Planar
    /\ CompleteBlocks # {}
    /\ CompleteBlocks # Blocks
    /\ Len(indices) > 0

\* C24: in the cylindrical variant every pair of vertices of an emitted
\* triangle, the diagonal vertex d included, is at a distance below 0.2.
C24_NoTriangleBridgesGap ==
    (Resolved /\ variant = "volumetric")
        => \A n \in TriangleIds :
              \A i, j \in Corner(indices[n]) :
                  Near(VolumetricPos(vertices[i + 1]), VolumetricPos(vertices[j + 1]))

(***************************************************************************)
(* Claims about the chunks of the progressive generator.                   *)
(***************************************************************************)
\* Vertex p was pushed for a cell that comes before the cell of vertex q in
\* row-major order.
CellBefore(p, q) == p.y < q.y \/ (p.y = q.y /\ p.x < q.x)

\* After every call of processChunk: the cursor has advanced by CHUNK_SIZE
\* rows per call (up to h), the rows synthesized so far were taken once each
\* and in increasing order, and the promise is resolved exactly when
\* ceil(h / CHUNK_SIZE) calls were made (one call when h is 0).
ChunkInvariant ==
    /\ y = Min(ticks * CHUNK_SIZE, h)
    /\ \A i \in 1 .. (Len(vertices) - 1) : CellBefore(vertices[i], vertices[i + 1])
    /\ \A i \in DOMAIN vertices : vertices[i].y < y
    /\ (pc = "resolved") <=> (ticks = TicksOf(h))
    /\ ticks <= TicksOf(h)

\* A step is one call of processChunk by a call that has not resolved: it
\* takes at most CHUNK_SIZE rows, the ones from the cursor on, and keeps
\* what was synthesized before.
ChunkStep ==
    /\ pc # "resolved"
    /\ ticks' = ticks + 1
    /\ y' - y \in 0 .. CHUNK_SIZE
    /\ Len(vertices') >= Len(vertices)
    /\ SubSeq(vertices', 1, Len(vertices)) = vertices
    /\ \A i \in (Len(vertices) + 1) .. Len(vertices') :
          vertices'[i].y >= y /\ vertices'[i].y < y'

\* C21: each tick of the progressive generator synthesizes at most
\* CHUNK_SIZE rows, each row once and in increasing order, and when frames
\* keep firing a run over h rows resolves exactly once, after
\* ceil(h / CHUNK_SIZE) ticks (one tick when h is 0).
C21_ChunksBoundedAndTerminate ==
    /\ [](variant = "async" => ChunkInvariant)
    /\ [][variant = "async" => ChunkStep]_vars
    /\ (variant = "async" /\ pc = "start") ~> (pc = "resolved")
C21_Witness ==
    /\ variant = "async"
    /\ pc = "resolved"
    /\ h > 2 * CHUNK_SIZE
    /\ ticks = TicksOf(h)
    /\ Len(vertices) > CHUNK_SIZE


(***************************************************************************)
(* The two-view App component.                                             *)
(***************************************************************************)
Failed == {"failed"}

\* C29: generateBackView never fails: when its request throws or answers
\* without data the image handed on is the front image itself. A call of
\* processImage therefore ends in error exactly when one of its two
\* generateDepthMap calls failed, every such failure being propagated, and
\* the status is error only after some call ended so.
C29_OnlyDepthFailureEndsInError ==
    /\ \A r \in DOMAIN tasks :
          LET t == tasks[r]
          IN  /\ t.viewResp # "none" =>
                    /\ t.backViewTask # "view"
                    /\ t.res = IF t.viewResp = "data" THEN BackViewOf(t.img) ELSE t.img
              /\ (t.ended = "error") <=> (t.depthResp \in Failed \/ t.backResp \in Failed)
              /\ t.backViewTask = "rejected" => t.backResp \in Failed
    /\ status = "error" => \E r \in DOMAIN tasks : tasks[r].ended = "error"

\* A back-view request failed, the front image was handed on as the back
\* view, and the depth request for it failed and ended the call in error.
C29_Witness ==
    \E r \in DOMAIN tasks :
        /\ tasks[r].viewResp \in Failed
        /\ tasks[r].res = tasks[r].img
        /\ backImage = tasks[r].img
        /\ tasks[r].depthResp = "data"
        /\ tasks[r].backResp \in Failed
        /\ tasks[r].ended = "error"
        /\ status = "error"

\* C25: when a call of processImage ends the status becomes success or
\* error, and no later callback of that call changes the status.
C25_EndedRunKeepsStatus ==
    [][\A r \in DOMAIN tasks :
          /\ (tasks[r].ended = "pending" /\ tasks'[r].ended # "pending")
                => status' \in {"success", "error"}
          /\ (tasks[r].ended # "pending" /\ tasks'[r] # tasks[r])
                => status' = status]_vars

\* C26: a depth map or back image that is stored was computed from the
\* current originalImage, and none is stored while originalImage is null.
C26_ResultsBelongToCurrentImage ==
    /\ frontDepthMap # NullDepth =>
          originalImage # NullImage /\ frontDepthMap.of = originalImage
    /\ backImage # NullImage =>
          originalImage # NullImage /\ backImage.src = originalImage.src
    /\ backDepthMap # NullDepth =>
          originalImage # NullImage /\ backDepthMap.of.src = originalImage.src

\* C30: progress is within 0..100, at most 95 unless the status is success,
\* and 100 only while the status is success.
C30_ProgressWithinBounds ==
    /\ appProgress \in 0 .. 100
    /\ status # "success" => appProgress <= 95
    /\ appProgress = 100 => status = "success"

====
